---- MODULE Spec2Model ----
(***************************************************************************)
(* Model of gen/vk_spec_reference_parser.py: one sequential pass over the  *)
(* Vulkan object model `vk` that prints one TOML-like record per entity.   *)
(* The output stream is the sequence `out` of printed lines.               *)
(***************************************************************************)
EXTENDS Integers, Sequences, FiniteSets, TLC

VARIABLES
    vk,        \* the object returned by get_vulkan_object() (read-only)
    phase,     \* the module-level loop the pass is in, "done" or "aborted"
    i,         \* index of the next entity of the current loop
    handle,    \* the module-level loop variable `handle`: <<>> while unbound
    out,       \* lines printed so far
    records    \* calls made so far: category, entity index, lines printed

vars == <<vk, phase, i, handle, out, records>>

----------------------------------------------------------------------------
(* Bounds of the enumerated object models *)

\* most entities (over all categories) one object model holds
MaxEntities == 3
\* length of the non-empty lists of an entity, and most vendor tags
MaxList == 2

----------------------------------------------------------------------------
(* Python values and the printing idioms of the script *)

\* Python None; a present optional value v is <<v>>
None == <<>>
Some(v) == <<v>>

\* truth value of an optional string or object reference
Truthy(o) == o # None /\ o[1] # ""

\* str() of an optional string, as print() applies it
PyStr(o) == IF o = None THEN "None" ELSE o[1]

\* str() of a bool, as print() applies it
PyBool(b) == IF b THEN "True" ELSE "False"

\* `x if x else "null"`
OrNull(o) == IF Truthy(o) THEN o[1] ELSE "null"

\* `x.name if x else "null"`
NameOrNull(o) == IF o # None THEN o[1].name ELSE "null"

\* `"true" if x else "false"`
BoolTok(b) == IF b THEN "true" ELSE "false"

\* ",".join(list)
RECURSIVE Join(_)
Join(s) ==
    IF s = <<>> THEN ""
    ELSE IF Len(s) = 1 THEN s[1]
    ELSE s[1] \o "," \o Join(Tail(s))

\* [x.name for x in list]
Names(s) == [j \in 1..Len(s) |-> s[j].name]

\* print("[[header]]")
Header(h) == [kind |-> "header", key |-> h, val |-> ""]

\* print("key =", value): the line `key = value`
Kv(k, v) == [kind |-> "kv", key |-> k, val |-> v]

\* print("key = [", ",".join(list), "]", sep = ""): the line `key = [a,b]`
KvList(k, s) == Kv(k, "[" \o Join(s) \o "]")

\* print(): an empty line
Blank == [kind |-> "blank", key |-> "", val |-> ""]

----------------------------------------------------------------------------
(* The entities of the object model.  `f` selects the shape of an entity:  *)
(* 1 has every optional attribute absent, every flag false and every list  *)
(* empty; the other shapes have them present, true and of length MaxList.  *)
(* `n` is the position of the entity in its category and makes its name    *)
(* unique within the category.                                             *)

Toks(prefix, n) == [j \in 1..n |-> prefix \o ToString(j)]
Objs(prefix, n) == [j \in 1..n |-> [name |-> prefix \o ToString(j)]]
OptTok(f, tok) == IF f = 1 THEN None ELSE Some(tok)
ListTok(f, prefix) == IF f = 1 THEN <<>> ELSE Toks(prefix, MaxList)

HandleName(n) == "VkHandle" \o ToString(n)

FeatureRequirements(f) ==
    IF f = 1 THEN <<>>
    ELSE << [struct |-> "VkFeatures", field |-> "feature", depends |-> None],
            [struct |-> "VkFeatures", field |-> "other", depends |-> Some("VK_A+VK_B")] >>

ExtensionEntity(f, n) ==
    [ name |-> "VK_EXT_" \o ToString(n),
      nameString |-> "VK_EXT_" \o ToString(n) \o "_EXTENSION_NAME",
      specVersion |-> "VK_EXT_" \o ToString(n) \o "_SPEC_VERSION",
      instance |-> (f = 1), device |-> (f # 1),
      depends |-> OptTok(f, "VK_VERSION_1_1"),
      vendorTag |-> OptTok(f, "EXT"),
      platform |-> OptTok(f, "xcb"),
      protect |-> OptTok(f, "VK_USE_PLATFORM_XCB_KHR"),
      provisional |-> (f # 1),
      promotedTo |-> OptTok(f, "VK_VERSION_1_2"),
      deprecatedBy |-> OptTok(f, "VK_EXT_new"),
      obsoletedBy |-> OptTok(f, "VK_EXT_newer"),
      specialUse |-> ListTok(f, "use"),
      handles |-> IF f = 1 THEN <<>> ELSE Objs("VkHandle", MaxList),
      commands |-> IF f = 1 THEN <<>> ELSE Objs("vkCmd", MaxList),
      structs |-> IF f = 1 THEN <<>> ELSE Objs("VkStruct", MaxList),
      enums |-> IF f = 1 THEN <<>> ELSE Objs("VkEnum", MaxList),
      bitmasks |-> IF f = 1 THEN <<>> ELSE Objs("VkBits", MaxList),
      flags |-> IF f = 1 THEN <<>>
                ELSE <<[n |-> "VkFlags1", f |-> Objs("VK_BIT_", MaxList)]>>,
      enumFields |-> IF f = 1 THEN <<>>
                     ELSE <<[n |-> "VkEnum1", f |-> Objs("VK_FIELD_", MaxList)]>>,
      flagBits |-> IF f = 1 THEN <<>>
                   ELSE <<[n |-> "VkBits1", f |-> Objs("VK_BIT_", MaxList)]>>,
      featureRequirement |-> FeatureRequirements(f) ]

VersionEntity(f, n) ==
    [ name |-> "VK_VERSION_1_" \o ToString(n),
      nameApi |-> "VK_API_VERSION_1_" \o ToString(n),
      featureRequirement |-> FeatureRequirements(f) ]

HandleEntity(f, n) ==
    [ name |-> HandleName(n),
      aliases |-> ListTok(f, HandleName(n) \o "KHR"),
      type |-> IF f = 1 THEN "VK_OBJECT_TYPE_INSTANCE" ELSE "VK_OBJECT_TYPE_DEVICE",
      protect |-> OptTok(f, "VK_ENABLE_BETA_EXTENSIONS"),
      parent |-> IF f = 1 THEN None ELSE Some([name |-> "VkInstance"]),
      instance |-> (f = 1), device |-> (f # 1),
      extensions |-> ListTok(f, "VK_EXT_") ]

\* a parameter; `a` selects absent or present optional attributes
ParamEntity(a, nm, ty) ==
    [ name |-> nm, alias |-> OptTok(a, nm \o "Old"), type |-> ty,
      fullType |-> IF a = 1 THEN ty ELSE "const " \o ty \o "*",
      const |-> (a # 1), pointer |-> (a # 1), optional |-> (a # 1),
      optionalPointer |-> (a # 1),
      length |-> OptTok(a, "count"),
      nullTerminated |-> (a # 1),
      fixedSizeArray |-> ListTok(a, "DIM"),
      externSync |-> (a # 1),
      externSyncPointer |-> OptTok(a, "pInfo") ]

\* shape 1: a command without parameters; shape 2: owned by the first
\* handle; shape 3: owned by the second handle
CommandEntity(f, n) ==
    [ name |-> "vkCmd" \o ToString(n),
      alias |-> OptTok(f, "vkCmdOld"),
      protect |-> OptTok(f, "VK_ENABLE_BETA_EXTENSIONS"),
      version |-> IF f = 1 THEN None ELSE Some([name |-> "VK_VERSION_1_1"]),
      primary |-> (f # 1), secondary |-> (f = 3), allowNoQueues |-> (f = 3),
      tasks |-> ListTok(f, "task"),
      queues |-> ListTok(f, "VK_QUEUE_"),
      renderPass |-> IF f = 1 THEN "both" ELSE "outside",
      videoCoding |-> IF f = 1 THEN "both" ELSE "outside",
      returnType |-> IF f = 1 THEN "void" ELSE "VkResult",
      successCodes |-> ListTok(f, "VK_SUCCESS_"),
      errorCodes |-> ListTok(f, "VK_ERROR_"),
      implicitExternSyncParams |-> ListTok(f, "pool"),
      params |-> IF f = 1 THEN <<>>
                 ELSE << ParamEntity(1, "object", HandleName(f - 1)),
                         ParamEntity(2, "pInfo", "VkStruct1") >> ]

MemberEntity(a, nm) ==
    [ name |-> nm, type |-> "uint32_t",
      fullType |-> IF a = 1 THEN "uint32_t" ELSE "const uint32_t*",
      limitType |-> OptTok(a, "max"),
      const |-> (a # 1), pointer |-> (a # 1),
      fixedSizeArray |-> ListTok(a, "DIM"),
      optional |-> (a # 1), optionalPointer |-> (a # 1),
      externSync |-> (a # 1),
      bitFieldWidth |-> OptTok(a, "8"),
      selector |-> OptTok(a, "sType"),
      selection |-> ListTok(a, "VARIANT_") ]

StructEntity(f, n) ==
    [ name |-> "VkStruct" \o ToString(n),
      aliases |-> ListTok(f, "VkStructKHR"),
      extensions |-> ListTok(f, "VK_EXT_"),
      version |-> IF f = 1 THEN None ELSE Some([name |-> "VK_VERSION_1_1"]),
      protect |-> OptTok(f, "VK_ENABLE_BETA_EXTENSIONS"),
      union |-> (f # 1),
      sType |-> OptTok(f, "VK_STRUCTURE_TYPE_" \o ToString(n)),
      allowDuplicate |-> (f # 1),
      extends |-> ListTok(f, "VkBase"),
      extendedBy |-> ListTok(f, "VkExt"),
      members |-> IF f = 1 THEN <<>>
                  ELSE <<MemberEntity(1, "sType"), MemberEntity(2, "value")>> ]

EnumEntity(f, n) ==
    [ name |-> "VkEnum" \o ToString(n),
      aliases |-> ListTok(f, "VkEnumKHR"),
      protect |-> OptTok(f, "VK_ENABLE_BETA_EXTENSIONS"),
      bitWidth |-> 32,
      returnedOnly |-> (f # 1),
      extensions |-> ListTok(f, "VK_EXT_"),
      fieldExtensions |-> ListTok(f, "VK_EXT_"),
      fields |-> IF f = 1 THEN <<>>
                 ELSE << [name |-> "VK_FIELD_1", aliases |-> <<>>, negative |-> FALSE,
                          value |-> 1, extensions |-> <<>>],
                         [name |-> "VK_FIELD_2", aliases |-> Toks("VK_FIELD_OLD_", MaxList),
                          negative |-> TRUE, value |-> 2,
                          extensions |-> Toks("VK_EXT_", MaxList)] >> ]

BitmaskEntity(f, n) ==
    [ name |-> "VkBits" \o ToString(n),
      aliases |-> ListTok(f, "VkBitsKHR"),
      protect |-> OptTok(f, "VK_ENABLE_BETA_EXTENSIONS"),
      flagName |-> "VkFlags" \o ToString(n),
      bitWidth |-> IF f = 1 THEN 32 ELSE 64,
      returnedOnly |-> (f # 1),
      extensions |-> ListTok(f, "VK_EXT_"),
      flagExtensions |-> ListTok(f, "VK_EXT_"),
      flags |-> IF f = 1 THEN <<>>
                ELSE << [name |-> "VK_BIT_1", aliases |-> <<>>, protect |-> None,
                         value |-> 0, multiBit |-> FALSE, zero |-> TRUE,
                         extensions |-> <<>>],
                        [name |-> "VK_BIT_2", aliases |-> Toks("VK_BIT_OLD_", MaxList),
                         protect |-> Some("VK_ENABLE_BETA_EXTENSIONS"),
                         value |-> 3, multiBit |-> TRUE, zero |-> FALSE,
                         extensions |-> Toks("VK_EXT_", MaxList)] >> ]

FlagsEntity(f, n) ==
    [ name |-> "VkFlags" \o ToString(n),
      aliases |-> ListTok(f, "VkFlagsKHR"),
      bitmaskName |-> OptTok(f, "VkBits" \o ToString(n)),
      protect |-> OptTok(f, "VK_ENABLE_BETA_EXTENSIONS"),
      baseFlagsType |-> IF f = 1 THEN "VkFlags" ELSE "VkFlags64",
      bitWidth |-> IF f = 1 THEN 32 ELSE 64,
      returnedOnly |-> (f # 1),
      extensions |-> ListTok(f, "VK_EXT_") ]

ConstantEntity(f, n) ==
    [ name |-> "VK_CONSTANT_" \o ToString(n), type |-> "uint32_t", value |-> n ]

SpirvEntity(f, n) ==
    [ name |-> "Spirv" \o ToString(n),
      extension |-> (f = 1),
      enable |-> IF f = 1 THEN <<>>
                 ELSE << [version |-> Some("VK_VERSION_1_1"), extension |-> None,
                          struct |-> None, feature |-> None, requires |-> None,
                          property |-> None, member |-> None, value |-> None],
                         [version |-> None, extension |-> None,
                          struct |-> Some("VkFeatures"), feature |-> Some("feature"),
                          requires |-> Some("VK_EXT_1"), property |-> None,
                          member |-> None, value |-> None] >> ]

PlatformEntity(f, n) ==
    [ name |-> "platform" \o ToString(n), ext |-> "VK_USE_PLATFORM_" \o ToString(n) ]

\* an entity of a category the script walks without printing
OtherEntity(f, n) == [ name |-> "other" \o ToString(n) ]

----------------------------------------------------------------------------
(* The object model: `l` is a sequence of <<category, shape>> choices; the *)
(* entities of one category keep their order in `l`.  The order of two     *)
(* entities of different categories carries no information, so only the    *)
(* sequences that list the categories in the order of Categories are used. *)

Categories ==
    << "extensions", "versions", "handles", "commands", "structs", "enums",
       "bitmasks", "flags", "constants", "formats", "syncStage", "syncAccess",
       "syncPipeline", "spirv", "platforms", "videoCodecs" >>

Shapes(c) ==
    IF c = "commands" THEN 1..3
    ELSE IF c \in {"extensions", "versions", "handles", "structs", "enums",
                   "bitmasks", "flags", "spirv"} THEN 1..2
    ELSE 1..1

Choices == UNION { {<<Categories[c], f>> : f \in Shapes(Categories[c])}
                   : c \in 1..Len(Categories) }

Entity(c, f, n) ==
    CASE c = "extensions" -> ExtensionEntity(f, n)
      [] c = "versions" -> VersionEntity(f, n)
      [] c = "handles" -> HandleEntity(f, n)
      [] c = "commands" -> CommandEntity(f, n)
      [] c = "structs" -> StructEntity(f, n)
      [] c = "enums" -> EnumEntity(f, n)
      [] c = "bitmasks" -> BitmaskEntity(f, n)
      [] c = "flags" -> FlagsEntity(f, n)
      [] c = "constants" -> ConstantEntity(f, n)
      [] c = "spirv" -> SpirvEntity(f, n)
      [] c = "platforms" -> PlatformEntity(f, n)
      [] OTHER -> OtherEntity(f, n)

EntitiesOf(l, c) ==
    LET s == SelectSeq(l, LAMBDA e : e[1] = c)
    IN  [n \in 1..Len(s) |-> Entity(c, s[n][2], n)]

VulkanObject(l, tags) ==
    [c \in {Categories[k] : k \in 1..Len(Categories)} |-> EntitiesOf(l, c)]
        @@ [vendorTags |-> Toks("TAG", tags)]

CategoryIndex(c) == CHOOSE k \in 1..Len(Categories) : Categories[k] = c

Grouped(l) ==
    \A j \in 1..(Len(l) - 1) : CategoryIndex(l[j][1]) <= CategoryIndex(l[j + 1][1])

VulkanObjects ==
    { VulkanObject(l, tags) :
        l \in { m \in UNION { [1..k -> Choices] : k \in 0..MaxEntities } : Grouped(m) },
        tags \in {0, MaxList} }

----------------------------------------------------------------------------
(* The record printers: each returns the lines one call prints *)

\* the lines a `for x in list:` loop prints, ss[j] being those of element j
RECURSIVE Flatten(_)
Flatten(ss) == IF ss = <<>> THEN <<>> ELSE ss[1] \o Flatten(Tail(ss))

feature_requirement_lines(fr) ==
    << Header("[[feature_requirement]]"),
       Kv("struct", fr.struct),
       Kv("field", fr.field),
       Kv("depends", OrNull(fr.depends)) >>

\* lines 7-38: the header and the extension's own key-value lines
extension_own_lines(item) ==
    << Header("[[extension]]"),
       Kv("name", item.name),
       Kv("name_string", item.nameString),
       Kv("spec_version_string", item.specVersion),
       Kv("instance", BoolTok(item.instance)),
       Kv("device", BoolTok(item.device)),
       Kv("depends", OrNull(item.depends)),
       Kv("vendor_tag", OrNull(item.vendorTag)),
       Kv("platform", OrNull(item.platform)),
       Kv("protect", OrNull(item.protect)),
       Kv("provisional", BoolTok(item.provisional)),
       Kv("promoted_to", OrNull(item.promotedTo)),
       Kv("deprecated_by", OrNull(item.deprecatedBy)),
       Kv("obsoleted_by", OrNull(item.obsoletedBy)),
       Kv("special_use", Join(item.specialUse)),
       KvList("handles", Names(item.handles)),
       KvList("commands", Names(item.commands)),
       KvList("structs", Names(item.structs)),
       KvList("enums", Names(item.enums)),
       KvList("bitmasks", Names(item.bitmasks)) >>

\* lines 40-62: the four loops over the extension's nested collections
extension_nested_lines(item) ==
    Flatten([j \in 1..Len(item.flags) |->
        LET g == item.flags[j] IN
        << Header("[[flags]]"), Kv("flag", g.n), KvList("flags", Names(g.f)) >>])
    \o Flatten([j \in 1..Len(item.enumFields) |->
        LET g == item.enumFields[j] IN
        << Header("[[enum_fields]]"), Kv("enum", g.n), KvList("fields", Names(g.f)) >>])
    \o Flatten([j \in 1..Len(item.flagBits) |->
        LET g == item.flagBits[j] IN
        << Header("[[flag_bits]]"), Kv("flag", g.n), KvList("bits", Names(g.f)) >>])
    \o Flatten([j \in 1..Len(item.featureRequirement) |-> feature_requirement_lines(item.featureRequirement[j])])

\* the print() of line 64 moved up to line 39, before the nested loops
extension_to_toml_BlankBeforeNested(item) ==
    extension_own_lines(item) \o << Blank >> \o extension_nested_lines(item)

extension_to_toml(item) ==
    extension_own_lines(item) \o extension_nested_lines(item) \o << Blank >>

version_to_toml(item) ==
    << Header("[[item]]"),
       Kv("name", item.name),
       Kv("api", item.nameApi),
       Kv("api", item.nameApi) >>
    \o Flatten([j \in 1..Len(item.featureRequirement) |-> feature_requirement_lines(item.featureRequirement[j])])
    \o << Blank >>

handle_to_toml(item) ==
    << Header("[[item]]"),
       Kv("name", item.name),
       KvList("aliases", item.aliases),
       Kv("type", item.type),
       Kv("protect", OrNull(item.protect)),
       Kv("parent", NameOrNull(item.parent)),
       Kv("instance", BoolTok(item.instance)),
       Kv("devices", BoolTok(item.device)),
       KvList("extensions", item.extensions),
       Blank >>

parameter_lines(param) ==
    << Header("[[parameter]]"),
       Kv("name", param.name),
       Kv("alias", PyStr(param.alias)),
       Kv("type", param.type),
       Kv("full_type", param.fullType),
       Kv("const", BoolTok(param.const)),
       Kv("pointer", BoolTok(param.pointer)),
       Kv("optional", BoolTok(param.optional)),
       Kv("optional_pointer", BoolTok(param.optionalPointer)),
       Kv("length", OrNull(param.length)),
       Kv("null_terminated", BoolTok(param.nullTerminated)),
       KvList("array_size", param.fixedSizeArray),
       Kv("extern_sync", PyBool(param.externSync)),
       Kv("extern_sync_pointer", OrNull(param.externSyncPointer)) >>

\* lines 91-95: what command_to_toml prints before it first reads the global
\* `handle`
command_head(item) ==
    << Header("[[item]]"),
       Kv("name", item.name),
       Kv("alias", OrNull(item.alias)),
       Kv("protect", OrNull(item.protect)),
       Kv("version", NameOrNull(item.version)) >>

\* `h` is the value of the module-level variable `handle` at the call
command_to_toml(item, h) ==
    command_head(item)
    \o << Kv("instance", BoolTok(h.instance)),
          Kv("devices", BoolTok(h.device)),
          Kv("primary", BoolTok(item.primary)),
          Kv("secondary", BoolTok(item.secondary)),
          Kv("allow_no_queues", BoolTok(item.allowNoQueues)),
          KvList("extensions", h.extensions),
          KvList("tasks", item.tasks),
          KvList("queues", item.queues),
          Kv("render_pass", item.renderPass),
          Kv("video_conding", item.videoCoding),
          Kv("return_type", item.returnType),
          KvList("success_codes", item.successCodes),
          KvList("error_codes", item.errorCodes),
          KvList("implicit_extern_sync_params", item.implicitExternSyncParams) >>
    \o Flatten([j \in 1..Len(item.params) |-> parameter_lines(item.params[j])])
    \o << Blank >>

member_lines(member) ==
    << Header("[[member]]"),
       Kv("name", member.name),
       Kv("type", member.type),
       Kv("full_type", member.fullType),
       Kv("limit_type", OrNull(member.limitType)),
       Kv("const", BoolTok(member.const)),
       Kv("pointer", BoolTok(member.pointer)),
       KvList("array_size", member.fixedSizeArray),
       Kv("optional", BoolTok(member.optional)),
       Kv("optional_ptr", BoolTok(member.optionalPointer)),
       Kv("extern_sync", PyBool(member.externSync)),
       Kv("bits", OrNull(member.bitFieldWidth)),
       Kv("selector", OrNull(member.selector)),
       KvList("selection", member.selection) >>

struct_to_toml(item) ==
    << Header("[[item]]"),
       Kv("name", item.name),
       KvList("aliases", item.aliases),
       KvList("extensions", item.extensions),
       Kv("version", IF item.version # None THEN item.version[1].name
                     ELSE "VK_VERSION_1_0"),
       Kv("protect", OrNull(item.protect)),
       Kv("union", BoolTok(item.union)),
       Kv("sType", OrNull(item.sType)),
       Kv("allow_duplicate", BoolTok(item.allowDuplicate)),
       KvList("extends", item.extends),
       KvList("extended_by", item.extendedBy) >>
    \o Flatten([j \in 1..Len(item.members) |-> member_lines(item.members[j])])
    \o << Blank >>

enum_to_toml(item) ==
    << Header("[[enum]]"),
       Kv("name", item.name),
       KvList("aliases", item.aliases),
       Kv("protect", OrNull(item.protect)),
       Kv("bitwidth", ToString(item.bitWidth)),
       Kv("return_only", BoolTok(item.returnedOnly)),
       KvList("extensions", item.extensions),
       KvList("field_extensions", item.fieldExtensions) >>
    \o Flatten([j \in 1..Len(item.fields) |->
        LET m == item.fields[j] IN
        << Header("[[field]]"),
           Kv("name", m.name),
           KvList("aliases", m.aliases),
           Kv("negative", BoolTok(m.negative)),
           Kv("value", ToString(m.value)),
           KvList("extensions", m.extensions) >>])
    \o << Blank >>

bitmask_to_toml(item) ==
    << Header("[[bitmask]]"),
       Kv("name", item.name),
       KvList("aliases", item.aliases),
       Kv("protect", OrNull(item.protect)),
       Kv("flags_name", item.flagName),
       Kv("bitwidth", ToString(item.bitWidth)),
       Kv("return_only", BoolTok(item.returnedOnly)),
       KvList("extensions", item.extensions),
       KvList("flag_extensions", item.flagExtensions) >>
    \o Flatten([j \in 1..Len(item.flags) |->
        LET m == item.flags[j] IN
        << Header("[[flag]]"),
           Kv("name", m.name),
           KvList("aliases", m.aliases),
           Kv("protect", OrNull(m.protect)),
           Kv("value", ToString(m.value)),
           Kv("multibit", BoolTok(m.multiBit)),
           Kv("zero", BoolTok(m.zero)),
           KvList("extensions", m.extensions) >>])
    \o << Blank >>

flags_to_toml(item) ==
    << Header("[[flags]]"),
       Kv("name", item.name),
       KvList("aliases", item.aliases),
       Kv("bitmask_name", OrNull(item.bitmaskName)),
       Kv("protect", OrNull(item.protect)),
       Kv("base_flags_type", item.baseFlagsType),
       Kv("bitwidth", ToString(item.bitWidth)),
       Kv("return_only", BoolTok(item.returnedOnly)),
       KvList("extensions", item.extensions),
       Blank >>

constant_to_toml(item) ==
    << Header("[[constant]]"),
       Kv("name", item.name),
       Kv("type", item.type),
       Kv("value", ToString(item.value)),
       Blank >>

spirv_to_toml(item) ==
    << IF item.extension THEN Header("[[spirv_extension]]")
       ELSE Header("[[spirv_capability]]"),
       Kv("name", item.name) >>
    \o Flatten([j \in 1..Len(item.enable) |->
        LET m == item.enable[j] IN
        << Header("[[enable]]"),
           Kv("version", OrNull(m.version)),
           Kv("extension", OrNull(m.extension)),
           Kv("struct", OrNull(m.struct)),
           Kv("feature", OrNull(m.feature)),
           Kv("requires", OrNull(m.requires)),
           Kv("property", OrNull(m.property)),
           Kv("member", OrNull(m.member)),
           Kv("value", OrNull(m.value)) >>])
    \o << Blank >>

\* the body of the platforms loop, lines 286-289
platform_lines(item) ==
    << Header("[[platform]]"),
       Kv("name", item.name),
       Kv("ext", item.ext),
       Blank >>

\* lines 291-293
vendor_tags_lines(tags) ==
    << [kind |-> "header", key |-> "[vendor_tags]", val |-> ""],
       KvList("tags", tags),
       Blank >>

----------------------------------------------------------------------------
(* The pass: the module-level statements, lines 241-296 *)

\* the structs loop and the enums loop in exchanged places
Program_EnumsBeforeStructs ==
    << "extensions", "versions", "handles", "commands", "enums", "structs",
       "bitmasks", "flags", "constants", "formats", "syncStage", "syncAccess",
       "syncPipeline", "spirv", "platforms", "vendor_tags", "videoCodecs",
       "done" >>

\* the module-level statements in program order
Program ==
    << "extensions", "versions", "handles", "commands", "structs", "enums",
       "bitmasks", "flags", "constants", "formats", "syncStage", "syncAccess",
       "syncPipeline", "spirv", "platforms", "vendor_tags", "videoCodecs",
       "done" >>

PositionOf(p) == CHOOSE k \in 1..Len(Program) : Program[k] = p

\* the statement that follows statement p
Following(p) == Program[PositionOf(p) + 1]

Loops == {Categories[k] : k \in 1..Len(Categories)}

\* one call of a record printer: its lines go to the output stream
Emit(c, lines) ==
    /\ out' = out \o lines
    /\ records' = Append(records, [cat |-> c, idx |-> i,
                                   first |-> Len(out) + 1,
                                   last |-> Len(out) + Len(lines)])

\* the first statement at or after p that has something to execute: a for
\* loop over an empty collection falls through to the statement after it
RECURSIVE Resume(_)
Resume(p) ==
    IF p \in Loops /\ Len(vk[p]) = 0 THEN Resume(Following(p)) ELSE p

\* a loop that ends one element early
Continue_EndsOneEarly(c) ==
    /\ phase' = IF i + 1 < Len(vk[c]) THEN c ELSE Resume(Following(c))
    /\ i' = IF i + 1 < Len(vk[c]) THEN i + 1 ELSE 1
    /\ UNCHANGED vk

\* the loop c goes on with its next element, or, when element i was its
\* last, control reaches the statements after it
Continue(c) ==
    /\ phase' = IF i < Len(vk[c]) THEN c ELSE Resume(Following(c))
    /\ i' = IF i < Len(vk[c]) THEN i + 1 ELSE 1
    /\ UNCHANGED vk

\* one iteration of `for x in vk.<c>...: printer(x)`, `lines` being what
\* printer(x) prints for element i
Iteration(c, lines) ==
    /\ phase = c
    /\ Emit(c, lines)
    /\ Continue(c)

\* one iteration of `for x in vk.<c>...: pass`
PassIteration(c) ==
    /\ phase = c
    /\ Continue(c)
    /\ UNCHANGED <<out, records>>

Init ==
    /\ vk \in VulkanObjects
    /\ phase = Resume("extensions")
    /\ i = 1
    /\ handle = None
    /\ out = <<>>
    /\ records = <<>>

ExtensionLoop == Iteration("extensions", extension_to_toml(vk.extensions[i])) /\ UNCHANGED handle

VersionLoop == Iteration("versions", version_to_toml(vk.versions[i])) /\ UNCHANGED handle

\* binds the module-level name `handle` to the entity visited
HandleLoop ==
    /\ Iteration("handles", handle_to_toml(vk.handles[i]))
    /\ handle' = Some(vk.handles[i])

\* command_to_toml reads the module-level name `handle`
CommandLoop ==
    /\ handle # None
    /\ Iteration("commands", command_to_toml(vk.commands[i], handle[1]))
    /\ UNCHANGED handle

\* `handle` is unbound when vk.handles is empty: line 96 raises NameError
\* after lines 91-95 have printed, and the script ends
CommandLoopNameError ==
    /\ phase = "commands"
    /\ handle = None
    /\ out' = out \o command_head(vk.commands[i])
    /\ phase' = "aborted"
    /\ UNCHANGED <<vk, i, handle, records>>

StructLoop == Iteration("structs", struct_to_toml(vk.structs[i])) /\ UNCHANGED handle

EnumLoop == Iteration("enums", enum_to_toml(vk.enums[i])) /\ UNCHANGED handle

BitmaskLoop == Iteration("bitmasks", bitmask_to_toml(vk.bitmasks[i])) /\ UNCHANGED handle

FlagsLoop == Iteration("flags", flags_to_toml(vk.flags[i])) /\ UNCHANGED handle

ConstantLoop == Iteration("constants", constant_to_toml(vk.constants[i])) /\ UNCHANGED handle

FormatsLoop == PassIteration("formats") /\ UNCHANGED handle

SyncStageLoop == PassIteration("syncStage") /\ UNCHANGED handle

SyncAccessLoop == PassIteration("syncAccess") /\ UNCHANGED handle

SyncPipelineLoop == PassIteration("syncPipeline") /\ UNCHANGED handle

SpirvLoop == Iteration("spirv", spirv_to_toml(vk.spirv[i])) /\ UNCHANGED handle

PlatformLoop == Iteration("platforms", platform_lines(vk.platforms[i])) /\ UNCHANGED handle

VendorTags ==
    /\ phase = "vendor_tags"
    /\ Emit("vendor_tags", vendor_tags_lines(vk.vendorTags))
    /\ phase' = Resume(Following(phase))
    /\ i' = 1
    /\ UNCHANGED <<vk, handle>>

VideoCodecsLoop == PassIteration("videoCodecs") /\ UNCHANGED handle

Next ==
    \/ ExtensionLoop
    \/ VersionLoop
    \/ HandleLoop
    \/ CommandLoop
    \/ CommandLoopNameError
    \/ StructLoop
    \/ EnumLoop
    \/ BitmaskLoop
    \/ FlagsLoop
    \/ ConstantLoop
    \/ FormatsLoop
    \/ SyncStageLoop
    \/ SyncAccessLoop
    \/ SyncPipelineLoop
    \/ SpirvLoop
    \/ PlatformLoop
    \/ VendorTags
    \/ VideoCodecsLoop

Spec == Init /\ [][Next]_vars

----------------------------------------------------------------------------
(* Reading the output stream back *)

\* the lines of one top-level record
Block(r) == SubSeq(out, r.first, r.last)

\* the entity a record was printed from
EntityOf(r) == vk[r.cat][r.idx]

\* positions of a block's own key-value lines: those between its header and
\* its first nested header or its blank line
Own(b) == {j \in 2..Len(b) : \A m \in 2..j : b[m].kind = "kv"}

Least(js) == CHOOSE j \in js : \A m \in js : j <= m

\* the value a block's own lines give key k
ValueOf(b, k) ==
    LET js == {j \in Own(b) : b[j].key = k}
    IN  IF js = {} THEN "(no such key)" ELSE b[Least(js)].val

\* positions of the nested sub-record headers of a block
NestedHeaders(b) == {j \in 2..Len(b) : b[j].kind = "header"}

\* the value the n-th nested sub-record of a block gives key k
SubValue(b, n, k) ==
    LET hs == NestedHeaders(b)
        start == CHOOSE j \in hs : Cardinality({m \in hs : m < j}) = n - 1
        js == {j \in (start + 1)..Len(b) :
                 /\ b[j].key = k
                 /\ \A m \in (start + 1)..j : b[m].kind = "kv"}
    IN  IF js = {} THEN "(no such key)" ELSE b[Least(js)].val

Bracketed(s) == "[" \o Join(s) \o "]"

RecordsOf(c) == {a \in 1..Len(records) : records[a].cat = c}

\* the categories that print records, in the order the specification gives
Supported ==
    << "extensions", "versions", "handles", "commands", "structs", "enums",
       "bitmasks", "flags", "constants", "spirv", "platforms", "vendor_tags" >>

Rank(c) == CHOOSE k \in 1..Len(Supported) : Supported[k] = c

\* the records printed so far lie end to end in the output stream
Tiled ==
    /\ \A a \in 1..Len(records) :
         records[a].first = IF a = 1 THEN 1 ELSE records[a - 1].last + 1
    /\ Len(out) = IF records = <<>> THEN 0 ELSE records[Len(records)].last

----------------------------------------------------------------------------
(* C1: the instance, devices and extensions values of every command record *)
(* are those of the handle that owns the command, the handle named by the  *)
(* type of the command's first parameter.                                  *)
C1_CommandAttrsFromOwningHandle ==
    \A a \in RecordsOf("commands") :
        LET cmd == EntityOf(records[a])
            b == Block(records[a])
        IN  \A h \in 1..Len(vk.handles) :
                (cmd.params # <<>> /\ cmd.params[1].type = vk.handles[h].name)
                => /\ ValueOf(b, "instance") = BoolTok(vk.handles[h].instance)
                   /\ ValueOf(b, "devices") = BoolTok(vk.handles[h].device)
                   /\ ValueOf(b, "extensions") = Bracketed(vk.handles[h].extensions)

(* C2: top-level records appear grouped by category in the fixed sequence  *)
(* extensions, versions, handles, commands, structs, enums, bitmasks,      *)
(* flags, constants, SPIR-V items, platforms, vendor tags; no record of a  *)
(* later category precedes one of an earlier category, and within one      *)
(* category the records follow the model's iteration order.                *)
C2_CategoryOrder ==
    /\ \A a, b \in 1..Len(records) :
         a < b =>
           \/ Rank(records[a].cat) < Rank(records[b].cat)
           \/ /\ records[a].cat = records[b].cat
              /\ records[a].idx < records[b].idx
    /\ \A a \in 1..Len(records) :
         /\ records[a].first < records[a].last
         /\ \A b \in 1..Len(records) : a < b => records[a].last < records[b].first
         /\ records[a].cat # "vendor_tags"
            => ValueOf(Block(records[a]), "name") = EntityOf(records[a]).name

C2_Witness ==
    /\ phase = "done"
    /\ Cardinality({records[a].cat : a \in 1..Len(records)}) >= 3
    /\ \E a, b \in 1..Len(records) : a < b /\ records[a].cat = records[b].cat

(* C3: after a completed pass every entity of every supported category has *)
(* exactly one top-level record, the vendor-tags record is printed exactly *)
(* once, also for an empty tag list, and nothing else is printed.          *)
C3_OneRecordPerEntity ==
    phase = "done" =>
      /\ \A k \in 1..(Len(Supported) - 1) :
           LET c == Supported[k]
           IN  /\ Cardinality(RecordsOf(c)) = Len(vk[c])
               /\ \A n \in 1..Len(vk[c]) :
                    Cardinality({a \in RecordsOf(c) : records[a].idx = n}) = 1
      /\ Cardinality(RecordsOf("vendor_tags")) = 1
      /\ \A a \in 1..Len(records) : \E k \in 1..Len(Supported) : records[a].cat = Supported[k]
      /\ Tiled
      /\ \A a \in 1..Len(records) : out[records[a].first].kind = "header"

C3_Witness ==
    /\ phase = "done"
    /\ vk.vendorTags = <<>>
    /\ \E k \in 1..(Len(Supported) - 1) : Len(vk[Supported[k]]) >= 2
    /\ \E c \in {"formats", "syncStage", "syncAccess", "syncPipeline", "videoCodecs"} :
         Len(vk[c]) >= 1

(* C4: an optional attribute or entity reference that is absent in the     *)
(* model still has its key printed, with the bare token null as its value. *)
C4_AbsentOptionalIsNull ==
    /\ \A a \in RecordsOf("extensions") :
         EntityOf(records[a]).depends = None
         => ValueOf(Block(records[a]), "depends") = "null"
    /\ \A a \in RecordsOf("structs") :
         EntityOf(records[a]).version = None
         => ValueOf(Block(records[a]), "version") = "null"
    /\ \A a \in RecordsOf("commands") :
         LET cmd == EntityOf(records[a])
         IN  /\ cmd.version = None => ValueOf(Block(records[a]), "version") = "null"
             /\ \A n \in 1..Len(cmd.params) :
                  cmd.params[n].alias = None
                  => SubValue(Block(records[a]), n, "alias") = "null"

(* C5: every list-valued attribute is printed as one bracketed value: []   *)
(* for an empty list, otherwise [ the items comma-joined without spaces ]. *)
C5_ListsBracketed ==
    /\ \A a \in RecordsOf("extensions") :
         LET e == EntityOf(records[a])
             b == Block(records[a])
         IN  /\ ValueOf(b, "special_use") = Bracketed(e.specialUse)
             /\ ValueOf(b, "handles") = Bracketed(Names(e.handles))
             /\ ValueOf(b, "commands") = Bracketed(Names(e.commands))
    /\ \A a \in RecordsOf("handles") :
         ValueOf(Block(records[a]), "aliases") = Bracketed(EntityOf(records[a]).aliases)
    /\ \A a \in RecordsOf("vendor_tags") :
         ValueOf(Block(records[a]), "tags") = Bracketed(vk.vendorTags)

(* C6: the header of a top-level record determines its category: records   *)
(* of two different categories never carry the same header, and no nested  *)
(* sub-record header coincides with a top-level header.                    *)
C6_HeaderIdentifiesCategory ==
    /\ \A a, b \in 1..Len(records) :
         out[records[a].first].key = out[records[b].first].key
         => records[a].cat = records[b].cat
    /\ \A a, b \in 1..Len(records) :
         \A j \in NestedHeaders(Block(records[a])) :
             Block(records[a])[j].key # out[records[b].first].key

(* C7: every top-level record's block ends with exactly one blank line,    *)
(* which the next top-level header or the end of the stream follows; no    *)
(* blank line lies inside a block, and none occurs twice in a row.         *)
C7_OneBlankLineAfterEachRecord ==
    /\ \A a \in 1..Len(records) :
         LET b == Block(records[a])
         IN  /\ b[1].kind = "header"
             /\ b[Len(b)] = Blank
             /\ \A j \in 1..(Len(b) - 1) : b[j] # Blank
    /\ phase = "done" =>
         /\ Tiled
         /\ out # <<>> /\ out[Len(out)] = Blank
         /\ \A j \in 1..(Len(out) - 1) :
              out[j] = Blank => out[j + 1].kind = "header"

C7_Witness ==
    /\ phase = "done"
    /\ \E a \in RecordsOf("extensions") : NestedHeaders(Block(records[a])) = {}
    /\ \E a \in 1..Len(records) : NestedHeaders(Block(records[a])) # {}
    /\ Len(records) >= 3

(* C8: for every model whose entities carry all their attributes, also one *)
(* with no handle and at least one command, the pass ends normally and     *)
(* never aborts.                                                           *)
C8_NeverAborts == phase # "aborted"

(* C9: every boolean attribute is printed as exactly the token true or the *)
(* token false, the external-sync flag of parameters and members included. *)
C9_BooleansAreTrueFalse ==
    /\ \A a \in RecordsOf("handles") :
         ValueOf(Block(records[a]), "instance") = BoolTok(EntityOf(records[a]).instance)
    /\ \A a \in RecordsOf("commands") :
         LET cmd == EntityOf(records[a])
         IN  \A n \in 1..Len(cmd.params) :
               /\ SubValue(Block(records[a]), n, "const") = BoolTok(cmd.params[n].const)
               /\ SubValue(Block(records[a]), n, "extern_sync")
                    = BoolTok(cmd.params[n].externSync)
    /\ \A a \in RecordsOf("structs") :
         LET st == EntityOf(records[a])
         IN  \A n \in 1..Len(st.members) :
               /\ SubValue(Block(records[a]), n, "optional") = BoolTok(st.members[n].optional)
               /\ SubValue(Block(records[a]), n, "extern_sync")
                    = BoolTok(st.members[n].externSync)

(* C10: the own lines of a record hold one key-value line per attribute:   *)
(* no key occurs twice among them, version records included.               *)
C10_NoKeyTwice ==
    \A a \in 1..Len(records) :
        LET b == Block(records[a])
        IN  \A j, m \in Own(b) : j # m => b[j].key # b[m].key

====
